---- MODULE Spec2Model ----
(***************************************************************************)
(* yew-callbacks: `#[derive(Callbacks)]` on a message enum generates a     *)
(* cache struct `<Enum>Callbacks` with one slot and one accessor per       *)
(* variant.  The model has two layers:                                     *)
(*   - the generator `derive_callbacks` (src/src/lib.rs), as operators     *)
(*     over an enum declaration;                                           *)
(*   - the generated code at run time: the cache struct, its constructors  *)
(*     and accessors, and the callbacks an accessor hands out.             *)
(* A yew `Callback` is an `Rc<dyn Fn>`; two callbacks are equal iff they   *)
(* point to the same allocation.  Allocations are the indices of `heap`.   *)
(***************************************************************************)
EXTENDS Integers, Sequences, FiniteSets, TLC

\* ------------------------------------------------------------------ bounds
MaxFields == 2    \* longest field list of an enumerated variant shape
MaxCalls  == 3    \* accessor calls in one behaviour

CacheIds == {1, 2}   \* cache objects
Scopes   == {1}   \* component scopes (dispatcher handles)

\* the values of a field type: two of each type a key is made of, one event
\* of each event type
ValuesOf(ty) ==
  CASE ty = "String"        -> {"foo", "bar"}
    [] ty = "KeyboardEvent" -> {"kb_event"}
    [] ty = "InputEvent"    -> {"input_event"}
    [] OTHER                -> {0, 1}

\* ------------------------------------------------------------ declarations
\* syn::Field: attrs, ident (None for positional fields), ty.
None    == <<>>          \* Option::None
Some(x) == <<x>>         \* Option::Some(x)

Field(attrs, ident, ty) == [attrs |-> attrs, ident |-> ident, ty |-> ty]

\* syn::Variant: ident and fields (Unit | Unnamed | Named).
Variant(name, kind, fields) == [ident |-> name, kind |-> kind, fields |-> fields]

FieldName(i) == "f" \o ToString(i)
TypeName(i)  == "T" \o ToString(i)

\* every variant shape with at most MaxFields fields: each field carries
\* `#[curry]` or not; named fields are f1..fn, every field has its own type.
ShapesOf(kind) ==
  UNION { { Variant("V", kind,
                    [i \in 1..n |-> Field(IF m[i] THEN {"curry"} ELSE {},
                                          IF kind = "Named" THEN Some(FieldName(i)) ELSE None,
                                          TypeName(i))])
            : m \in [1..n -> BOOLEAN] }
          : n \in 0..MaxFields }

Shapes == {Variant("V", "Unit", <<>>)} \cup ShapesOf("Unnamed") \cup ShapesOf("Named")

\* the enum of tests/it-works.rs and examples/example.rs
Msg ==
  << Variant("OnClick", "Unit", <<>>),
     Variant("OnInput", "Unnamed",
             << Field({}, None, "InputEvent"), Field({}, None, "KeyboardEvent") >>),
     Variant("OnKeyPress", "Unnamed",
             << Field({"curry"}, None, "usize"), Field({}, None, "KeyboardEvent"),
                Field({}, None, "InputEvent"), Field({"curry"}, None, "String") >>),
     Variant("OnStuff", "Named",
             << Field({"curry"}, Some("index"), "usize"), Field({}, Some("kb_event"), "KeyboardEvent"),
                Field({}, Some("input_event"), "InputEvent"), Field({"curry"}, Some("key"), "String") >>),
     Variant("OnOtherStuff", "Named",
             << Field({}, Some("kb_event"), "KeyboardEvent"),
                Field({}, Some("input_event"), "InputEvent") >>) >>

\* an enum with a curried field of a type that is neither Eq nor Hash
Scale ==
  << Variant("OnClick", "Unnamed",
             << Field({"curry"}, None, "f64"), Field({}, None, "InputEvent") >>) >>

\* the enum declarations a behaviour can be about
Decls == { <<v>> : v \in Shapes } \cup { Msg, Scale }

\* ---------------------------------------------------------------- helpers
Range(s) == { s[i] : i \in DOMAIN s }

\* s.iter().zip(t).filter(keep).map(|(_, x)| x): the elements of t at the
\* positions where keep holds, in order
RECURSIVE FilterFrom(_, _, _)
FilterFrom(keep, t, i) ==
  IF i > Len(t) THEN <<>>
  ELSE (IF keep[i] THEN <<t[i]>> ELSE <<>>) \o FilterFrom(keep, t, i + 1)

\* a closure's parameter pattern |(n1, .., nk)| applied to a tuple
Bind(names, values) ==
  [n \in Range(names) |-> values[CHOOSE i \in DOMAIN names : names[i] = n]]

\* all tuples of the tuple type (tys[1], .., tys[n]), from position i on
RECURSIVE TuplesFrom(_, _)
TuplesFrom(tys, i) ==
  IF i > Len(tys) THEN {<<>>}
  ELSE { <<x>> \o rest : x \in ValuesOf(tys[i]), rest \in TuplesFrom(tys, i + 1) }

Tuples(tys) == TuplesFrom(tys, 1)

\* ------------------------------------------------ generator: derive_callbacks
is_curried(field) == \E x \in field.attrs : x = "curry"

Curried(variant)    == [i \in DOMAIN variant.fields |-> is_curried(variant.fields[i])]
NotCurried(variant) == [i \in DOMAIN variant.fields |-> ~is_curried(variant.fields[i])]
FieldTys(variant)   == [i \in DOMAIN variant.fields |-> variant.fields[i].ty]

\* faulty variant: the key is made of the types of all the fields
curried_tysUnfiltered(variant) ==
  IF variant.kind = "Unit" THEN None
  ELSE IF FieldTys(variant) = <<>> THEN None ELSE Some(FieldTys(variant))

\* curried_tys: the key type of the variant's map, None when nothing is curried
curried_tys(variant) ==
  IF variant.kind = "Unit" THEN None
  ELSE LET tys == FilterFrom(Curried(variant), FieldTys(variant), 1)
       IN  IF tys = <<>> THEN None ELSE Some(tys)

\* faulty variant: the callback's input is made of all the fields
tysUnfiltered(variant) ==
  IF variant.kind = "Unit" THEN <<>> ELSE FieldTys(variant)

\* tys: the input type of the variant's callback
tys(variant) ==
  IF variant.kind = "Unit" THEN <<>>
  ELSE FilterFrom(NotCurried(variant), FieldTys(variant), 1)

\* callbacks: the type of the variant's field in the cache struct
callbacks(variant) ==
  IF curried_tys(variant) # None
  THEN [cell |-> "HashMap", key |-> curried_tys(variant)[1], input |-> tys(variant)]
  ELSE [cell |-> "Option", key |-> <<>>, input |-> tys(variant)]

\* faulty variant: the Option cells are filled when the cache is made
initsEager(variant) ==
  IF callbacks(variant).cell = "HashMap" THEN {} ELSE Some(1)

\* inits: Default::default() of the field's type
inits(variant) ==
  IF callbacks(variant).cell = "HashMap" THEN {} ELSE None

is_named(variant) == \E i \in DOMAIN variant.fields : variant.fields[i].ident # None

\* idents: the field's name, or arg_<i> counting from 0
idents(variant) ==
  [i \in DOMAIN variant.fields |->
     IF variant.fields[i].ident # None THEN variant.fields[i].ident[1]
     ELSE "arg_" \o ToString(i - 1)]

\* args: the accessor's parameters; ins: the callback's parameters
args(variant) == FilterFrom(Curried(variant), idents(variant), 1)
ins(variant)  == FilterFrom(NotCurried(variant), idents(variant), 1)

\* args_sig: `ident: ty` for every parameter of the accessor
args_sig(variant) ==
  FilterFrom(Curried(variant),
             [i \in DOMAIN variant.fields |->
                [ident |-> idents(variant)[i], ty |-> variant.fields[i].ty]], 1)

\* heck's to_snake_case, on the variant names in use
to_snake_case(name) ==
  CASE name = "OnClick"      -> "on_click"
    [] name = "OnInput"      -> "on_input"
    [] name = "OnKeyPress"   -> "on_key_press"
    [] name = "OnStuff"      -> "on_stuff"
    [] name = "OnOtherStuff" -> "on_other_stuff"
    [] name = "V"            -> "v"

\* faulty variant: one field per field type, shared by the variants of that type
field_namesByType(input) ==
  [i \in DOMAIN input |->
     LET first == CHOOSE j \in DOMAIN input :
                    /\ callbacks(input[j]) = callbacks(input[i])
                    /\ \A k \in 1..(j - 1) : callbacks(input[k]) # callbacks(input[i])
     IN  "callback_" \o to_snake_case(input[first].ident)]

\* field_names: the cache struct's field of every variant
field_names(input) ==
  [i \in DOMAIN input |-> "callback_" \o to_snake_case(input[i].ident)]

\* which of the three accessor bodies the generator emits for the variant
Template(variant) ==
  IF variant.kind = "Unit" THEN "unit"
  ELSE IF curried_tys(variant) # None THEN "curried" ELSE "plain"

\* one argument of the emitted constructor expression: `name: var.clone()`,
\* `var.clone()`, or the bare `var`
Term(field, var, clone) == [field |-> field, var |-> var, clone |-> clone]

\* faulty variant: the curried values first, the callback's input after them
constructorGrouped(variant) ==
  LET id    == idents(variant)
      n     == DOMAIN variant.fields
      order == args(variant) \o ins(variant)
      named == is_named(variant)
  IN  IF variant.kind = "Unit" THEN [form |-> "Path", terms |-> <<>>]
      ELSE [form  |-> IF named THEN "Struct" ELSE "Tuple",
            terms |-> [i \in n |->
                         Term(IF named THEN Some(id[i]) ELSE None, order[i],
                              is_curried(variant.fields[i]))]]

\* faulty variant: without curried fields, the fields take the elements of
\* the input in reverse order
constructorReversed(variant) ==
  LET id    == idents(variant)
      n     == DOMAIN variant.fields
      named == is_named(variant)
      plain == Template(variant) = "plain"
  IN  IF Template(variant) = "unit" THEN [form |-> "Path", terms |-> <<>>]
      ELSE [form  |-> IF named THEN "Struct" ELSE "Tuple",
            terms |-> [i \in n |->
                         Term(IF named THEN Some(id[i]) ELSE None,
                              IF plain THEN id[Len(id) + 1 - i] ELSE id[i],
                              Curried(variant)[i])]]

\* constructor: the expression the callback's closure evaluates
constructor(variant) ==
  LET id == idents(variant)
      n  == DOMAIN variant.fields
  IN  IF Template(variant) = "unit" THEN [form |-> "Path", terms |-> <<>>]
      ELSE IF Template(variant) = "curried"
      THEN IF is_named(variant)
           THEN [form  |-> "Struct",
                 terms |-> [i \in n |-> Term(Some(id[i]), id[i], Curried(variant)[i])]]
           ELSE [form  |-> "Tuple",
                 terms |-> [i \in n |-> Term(None, id[i], Curried(variant)[i])]]
      ELSE IF is_named(variant)
           THEN [form |-> "Struct", terms |-> [i \in n |-> Term(Some(id[i]), id[i], FALSE)]]
           ELSE [form |-> "Tuple", terms |-> [i \in n |-> Term(None, id[i], FALSE)]]

\* the visibility the accessor is emitted with: `#vis`, the enum's own, or
\* none
accessor_vis(variant) ==
  IF Template(variant) = "unit" THEN None ELSE Some("#vis")

\* what the macro emits for one variant: the struct field (its type and its
\* initialiser), the accessor and the closure inside it
Generate(variant, field_name) ==
  [ident       |-> variant.ident,
   field_name  |-> field_name,
   fn_name     |-> to_snake_case(variant.ident),
   callbacks   |-> callbacks(variant),
   inits       |-> inits(variant),
   template    |-> Template(variant),
   args        |-> IF Template(variant) = "curried" THEN args(variant) ELSE <<>>,
   args_sig    |-> IF Template(variant) = "curried" THEN args_sig(variant) ELSE <<>>,
   params      |-> IF Template(variant) = "unit" THEN <<>>
                   ELSE IF Template(variant) = "curried" THEN ins(variant)
                   ELSE idents(variant),
   vis         |-> accessor_vis(variant),
   constructor |-> constructor(variant)]

\* the token stream derive_callbacks returns for an enum
derive_callbacks(input) ==
  [i \in DOMAIN input |-> Generate(input[i], field_names(input)[i])]

\* the types that are Eq + Hash + Clone; f64 is neither Eq nor Hash
Hashable(ty) == ty # "f64"

\* faulty variant: the key of a HashMap may be of any type
BuildsAnyKey(input, code) ==
  \A i \in DOMAIN input :
    code[i].constructor.form =
      CASE input[i].kind = "Named"   -> "Struct"
        [] input[i].kind = "Unnamed" -> "Tuple"
        [] input[i].kind = "Unit"    -> "Path"

\* the generated code is accepted by the compiler: a struct variant is built
\* with braces, a tuple variant with parentheses, a unit variant by its path;
\* entry() and the clone of the key ask every key type to be Eq + Hash + Clone
Builds(input, code) ==
  \A i \in DOMAIN input :
    /\ code[i].constructor.form =
         CASE input[i].kind = "Named"   -> "Struct"
           [] input[i].kind = "Unnamed" -> "Tuple"
           [] input[i].kind = "Unit"    -> "Path"
    /\ \A k \in DOMAIN code[i].callbacks.key : Hashable(code[i].callbacks.key[k])

\* faulty variant: whatever the derive is applied to is taken for an enum
mainAnyData(kind, variants) ==
  [error |-> None, code |-> derive_callbacks(variants)]

\* main: the macro's entry point, on the parsed DeriveInput; input.data is
\* an enum with its variants, or a struct or a union
main(kind, variants) ==
  IF kind = "Enum"
  THEN [error |-> None, code |-> derive_callbacks(variants)]
  ELSE [error |-> Some("#[derive(Callbacks)] only supports enums"), code |-> <<>>]

\* ------------------------------------------------------------ run time
VARIABLES
  decl,      \* the enum the macro was applied to
  gen,       \* the code generated for it
  caches,    \* CacheIds -> None | Some(<Enum>Callbacks struct)
  heap,      \* the closures allocated by link.callback(..); a Callback is an index
  returned,  \* what the accessors have returned: [cache, variant, key, cb]
  emitted,   \* the latest message a callback has sent to its scope, if any
  ncalls,    \* accessor calls so far
  data,      \* what the derive was applied to: "Enum", "Struct" or "Union"
  error,     \* the message the macro aborted with, if it did
  host,      \* the program around the caches: the caches its components
             \* make and how many accessor calls it has in progress at once
  frames,    \* the accessor calls in progress, when a call is run step by step
  borrows,   \* the RefCell borrows held: [cache, field, frame, kind]
  panicked,  \* a borrow or an unwrap has panicked
  vis        \* the visibility the enum is declared with

fixed == <<decl, gen, data, error, host, vis>>
steps == <<frames, borrows, panicked>>
vars  == <<decl, gen, caches, heap, returned, emitted, ncalls,
           data, error, host, frames, borrows, panicked, vis>>

Clone(x) == x

\* Callback's PartialEq: Rc::ptr_eq
CallbackEq(a, b) == a = b

\* faulty variant: the keys are compared as objects
KeyEqIdentity(a, b) == a = b

\* faulty variant: only the first component of the key is compared
KeyEqFirst(a, b) == a.val[1] = b.val[1]

\* Eq (and Hash) of the key tuple: by value
KeyEq(a, b) == a.val = b.val

Cache(c) == caches[c][1]

\* the visibilities an enum is declared with: none (private to its module),
\* pub(crate), pub
Visibilities == {"inherited", "pub(crate)", "pub"}

\* where the component that uses the cache is written: in the module of the
\* enum, in another module of its crate, in another crate
Modules == {"own", "crate", "extern"}

\* the visibility of the accessor generated by `code`: `#vis` is replaced by
\* the enum's visibility, an item without one is private
VisOf(code) == IF code.vis = None THEN "inherited" ELSE vis

\* an item of visibility v can be named from module `from`
Visible(v, from) ==
  CASE from = "own"    -> TRUE
    [] from = "crate"  -> v \in {"pub(crate)", "pub"}
    [] from = "extern" -> v = "pub"

\* the value of an expression `var` or `var.clone()` in an environment
TermValue(term, env) == IF term.clone THEN Clone(env[term.var]) ELSE env[term.var]

\* evaluating the constructor expression gives the message
Eval(name, ctor, env) ==
  [variant |-> name,
   form    |-> ctor.form,
   fields  |->
     IF ctor.form = "Struct"
     THEN [f \in { ctor.terms[i].field[1] : i \in DOMAIN ctor.terms } |->
             TermValue(ctor.terms[CHOOSE i \in DOMAIN ctor.terms :
                                    ctor.terms[i].field[1] = f], env)]
     ELSE [i \in DOMAIN ctor.terms |-> TermValue(ctor.terms[i], env)]]

\* the closure handed to link.callback, with its captured variables
Closure(c, i, env) ==
  [owner |-> c, link |-> Cache(c).link, variant |-> i, env |-> env]

\* `let arg = arg.clone();` for every accessor parameter, moved into the closure
Captured(code, key) == Bind(code.args, Clone(key.val))

\* faulty variant: the curried values are those of the variant's latest handler
CallLatest(closure, input) ==
  LET code   == gen[closure.variant]
      latest == CHOOSE h \in DOMAIN heap :
                  /\ heap[h].variant = closure.variant
                  /\ \A k \in DOMAIN heap : heap[k].variant = closure.variant => k <= h
  IN  Eval(code.ident, code.constructor, Bind(code.params, input) @@ heap[latest].env)

\* calling the closure with the callback's input: the closure's parameters
\* are bound to the input, the other variables are the captured ones
Call(closure, input) ==
  LET code == gen[closure.variant]
  IN  Eval(code.ident, code.constructor, Bind(code.params, input) @@ closure.env)

\* the captured variables after a call: a variable the body uses without
\* `.clone()` has been moved out
EnvAfterCall(code, env) ==
  [v \in { w \in DOMAIN env :
             \A i \in DOMAIN code.constructor.terms :
               code.constructor.terms[i].var = w => code.constructor.terms[i].clone }
     |-> env[v]]

\* the inputs a callback of the variant accepts
Inputs(code) == Tuples(code.callbacks.input)

\* the keys an accessor of the variant accepts; every call passes a tuple of
\* its own
Keys(code) ==
  { [addr |-> ncalls + 1, val |-> v] : v \in Tuples(code.callbacks.key) }

\* faulty variant: a new cache starts from the slots of a cache made before
newCopying(link) ==
  [link  |-> link,
   slots |-> IF \E c \in CacheIds : caches[c] # None
             THEN caches[CHOOSE c \in CacheIds : caches[c] # None][1].slots
             ELSE [f \in { gen[i].field_name : i \in DOMAIN gen } |->
                     gen[CHOOSE i \in DOMAIN gen : gen[i].field_name = f].inits]]

\* Self { link, field: Default::default(), .. }
new(link) ==
  [link  |-> link,
   slots |-> [f \in { gen[i].field_name : i \in DOMAIN gen } |->
                gen[CHOOSE i \in DOMAIN gen : gen[i].field_name = f].inits]]

\* the cell of variant i in cache c
Slot(c, i) == Cache(c).slots[gen[i].field_name]

\* faulty variant: the cell is taken to be empty at every call
IsNoneAlways(slot) == TRUE

\* slot.borrow().is_none()
IsNone(slot) == slot = None

\* if slot.borrow().is_none() { slot.replace(Some(fresh)) }
ReplaceIfNone(slot, fresh) == IF IsNone(slot) THEN Some(fresh) ELSE slot

\* map.entry(key): the entries whose key equals `key`
Entry(map, key) == { e \in map : KeyEq(e.key, key) }

\* faulty variant: the closure runs at every call
VacantAlways(map, key) == TRUE

\* the entry is vacant: or_insert_with_key runs its closure
Vacant(map, key) == Entry(map, key) = {}

\* faulty variant: map.insert(key, fresh)
OrInsertOverwrite(map, key, fresh) ==
  (map \ { e \in map : e.key.val = key.val }) \cup {[key |-> key, cb |-> fresh]}

\* faulty variant: a miss drops the entries of the other keys
OrInsertEvicting(map, key, fresh) ==
  IF { e \in map : e.key.val = key.val } = {} THEN {[key |-> key, cb |-> fresh]} ELSE map

\* map.entry(key).or_insert_with_key(|k| fresh)
OrInsertWithKey(map, key, fresh) ==
  IF Vacant(map, key) THEN map \cup {[key |-> key, cb |-> fresh]} ELSE map

\* faulty variant: the accessor returns a handler other than the stored one
ReturnOther(c, i, key, cb) == [cache |-> c, variant |-> i, key |-> key, cb |-> cb + 1]

\* what the accessor call hands to its caller
Return(c, i, key, cb) == [cache |-> c, variant |-> i, key |-> key, cb |-> cb]

\* the key of a call that takes no arguments
NoKey == [addr |-> ncalls + 1, val |-> <<>>]

\* the derive has run; no cache is made yet
Derived(inputs) ==
  /\ data \in {"Enum", "Struct", "Union"}
  /\ decl \in IF data = "Enum" THEN inputs ELSE {<<>>}
  /\ gen = main(data, decl).code
  /\ error = main(data, decl).error
  /\ caches = [c \in CacheIds |-> None]
  /\ heap = <<>>
  /\ returned = {}
  /\ emitted = None
  /\ ncalls = 0
  /\ frames = {}
  /\ borrows = {}
  /\ panicked = FALSE

\* one component with its cache, every accessor call run to its end before
\* the next
Init ==
  /\ Derived(Decls)
  /\ vis = "pub"
  /\ host = [caches |-> {1}, calls |-> 1, module |-> "own"]

\* <Enum>Callbacks::new(link)
New(c, link) ==
  /\ error = None
  /\ Builds(decl, gen)
  /\ Visible(vis, host.module)
  /\ c \in host.caches
  /\ caches[c] = None
  /\ caches' = [caches EXCEPT ![c] = Some(new(link))]
  /\ UNCHANGED <<fixed, steps, heap, returned, emitted, ncalls>>

\* From<Scope<C>>
FromScope(c, link) ==
  /\ error = None
  /\ Builds(decl, gen)
  /\ Visible(vis, host.module)
  /\ c \in host.caches
  /\ caches[c] = None
  /\ caches' = [caches EXCEPT ![c] = Some(new(link))]
  /\ UNCHANGED <<fixed, steps, heap, returned, emitted, ncalls>>

\* From<&Scope<C>>
FromScopeRef(c, link) ==
  /\ error = None
  /\ Builds(decl, gen)
  /\ Visible(vis, host.module)
  /\ c \in host.caches
  /\ caches[c] = None
  /\ caches' = [caches EXCEPT ![c] = Some(new(Clone(link)))]
  /\ UNCHANGED <<fixed, steps, heap, returned, emitted, ncalls>>

\* an accessor of a variant whose slot is a RefCell<Option<Callback>>
Single(c, i) ==
  LET slot  == Slot(c, i)
      fresh == Len(heap) + 1
      after == ReplaceIfNone(slot, fresh)
  IN  /\ ncalls < MaxCalls
      /\ caches' = [caches EXCEPT ![c][1].slots[gen[i].field_name] = after]
      /\ heap' = IF IsNone(slot) THEN Append(heap, Closure(c, i, <<>>)) ELSE heap
      /\ returned' = returned \cup {Return(c, i, NoKey, Clone(after)[1])}
      /\ ncalls' = ncalls + 1
      /\ UNCHANGED <<fixed, steps, emitted>>

\* the accessor of a unit variant
AccessUnit(c, i) ==
  /\ Visible(VisOf(gen[i]), host.module)
  /\ caches[c] # None
  /\ gen[i].template = "unit"
  /\ Single(c, i)

\* the accessor of a variant with fields, none curried
AccessPlain(c, i) ==
  /\ Visible(VisOf(gen[i]), host.module)
  /\ caches[c] # None
  /\ gen[i].template = "plain"
  /\ Single(c, i)

\* the accessor of a variant with curried fields
AccessCurried(c, i, key) ==
  LET map   == Slot(c, i)
      fresh == Len(heap) + 1
      after == OrInsertWithKey(map, key, fresh)
      found == CHOOSE e \in Entry(after, key) : TRUE
  IN  /\ caches[c] # None
      /\ gen[i].template = "curried"
      /\ Visible(VisOf(gen[i]), host.module)
      /\ ncalls < MaxCalls
      /\ caches' = [caches EXCEPT ![c][1].slots[gen[i].field_name] = after]
      /\ heap' = IF Vacant(map, key)
                 THEN Append(heap, Closure(c, i, Captured(gen[i], key)))
                 ELSE heap
      /\ returned' = returned \cup {Return(c, i, key, Clone(found.cb))}
      /\ ncalls' = ncalls + 1
      /\ UNCHANGED <<fixed, steps, emitted>>

\* faulty variant: a handler is good for one invocation: invoking it takes it
\* out of the slots of its cache
InvokeTaking(cb, input) ==
  /\ emitted' = Some([link  |-> heap[cb].link, cb |-> cb, input |-> input,
                      msg   |-> Call(heap[cb], input),
                      again |-> emitted # None /\ emitted[1].cb = cb])
  /\ heap' = [heap EXCEPT ![cb].env = EnvAfterCall(gen[heap[cb].variant], @)]
  /\ caches' = [caches EXCEPT ![heap[cb].owner][1].slots[gen[heap[cb].variant].field_name] =
                                gen[heap[cb].variant].inits]
  /\ UNCHANGED <<fixed, steps, returned, ncalls>>

\* Callback::emit(input): run the closure, send the message to the scope
Invoke(cb, input) ==
  /\ emitted' = Some([link  |-> heap[cb].link, cb |-> cb, input |-> input,
                      msg   |-> Call(heap[cb], input),
                      again |-> emitted # None /\ emitted[1].cb = cb])
  /\ heap' = [heap EXCEPT ![cb].env = EnvAfterCall(gen[heap[cb].variant], @)]
  /\ UNCHANGED <<fixed, steps, caches, returned, ncalls>>

Next ==
  \/ \E c \in CacheIds, link \in Scopes : New(c, link)
  \/ \E c \in CacheIds, link \in Scopes : FromScope(c, link)
  \/ \E c \in CacheIds, link \in Scopes : FromScopeRef(c, link)
  \/ \E c \in CacheIds, i \in DOMAIN gen : AccessUnit(c, i)
  \/ \E c \in CacheIds, i \in DOMAIN gen : AccessPlain(c, i)
  \/ \E c \in CacheIds, i \in DOMAIN gen : \E key \in Keys(gen[i]) : AccessCurried(c, i, key)
  \/ \E r \in returned : \E input \in Inputs(gen[r.variant]) : Invoke(r.cb, input)

Spec == Init /\ [][Next]_vars

\* two components, each with its cache, linked to one scope; their enum has
\* the first three variants of the tests': a unit variant, one without and
\* one with curried fields
InitTwo ==
  /\ Derived({SubSeq(Msg, 1, 3)})
  /\ vis = "pub"
  /\ host = [caches |-> {1, 2}, calls |-> 1, module |-> "own"]

SpecTwo == InitTwo /\ [][Next]_vars

\* the enum declared with any visibility, the component written anywhere
InitVis ==
  /\ Derived(Decls)
  /\ vis \in Visibilities
  /\ \E m \in Modules : host = [caches |-> {1}, calls |-> 1, module |-> m]

SpecVis == InitVis /\ [][Next]_vars

\* ------------------------------------------------- the accessors by steps
\* The accessors again, one action per statement, with the borrows of the
\* RefCell around each slot: `borrow()` panics while the cell is mutably
\* borrowed, `borrow_mut()` and `replace()` panic while it is borrowed at all.
Frame(c, i, key, pc) ==
  [id |-> ncalls + 1, cache |-> c, variant |-> i, key |-> key, pc |-> pc]

Borrow(f, kind) ==
  [cache |-> f.cache, field |-> gen[f.variant].field_name, frame |-> f.id, kind |-> kind]

Held(c, field) == { b \in borrows : b.cache = c /\ b.field = field }

\* RefCell::borrow succeeds
CanBorrow(c, field) == \A b \in Held(c, field) : b.kind = "shared"

\* RefCell::borrow_mut and RefCell::replace succeed
CanBorrowMut(c, field) == Held(c, field) = {}

\* faulty variant: the Ref of the condition lives until the end of the `if`
AfterConditionKept(temps) == temps

\* the temporaries of an `if` condition are dropped before its block runs
AfterCondition(temps) == {}

\* the cells of the cache that the closure given to or_insert_with_key
\* borrows while it runs: it uses self.link and its own argument only
ClosureBorrows(code) == {}

\* a panic unwinds the call: its borrows are dropped, the program stops
Panic(f) ==
  /\ panicked' = TRUE
  /\ frames' = frames \ {f}
  /\ borrows' = { b \in borrows : b.frame # f.id }

Proceed(f, pc) ==
  /\ panicked' = panicked
  /\ frames' = (frames \ {f}) \cup {[f EXCEPT !.pc = pc]}

\* a call may begin
Begin(c) ==
  /\ ~panicked
  /\ caches[c] # None
  /\ ncalls < MaxCalls
  /\ Cardinality(frames) < host.calls

\* if self.field.borrow().is_none()
Check(c, i) ==
  LET f == Frame(c, i, NoKey, "check")
  IN  /\ Begin(c)
      /\ ncalls' = ncalls + 1
      /\ IF CanBorrow(c, gen[i].field_name)
         THEN /\ Proceed(f, IF IsNone(Slot(c, i)) THEN "replace" ELSE "read")
              /\ borrows' = borrows \cup AfterCondition({Borrow(f, "shared")})
         ELSE Panic(f)
      /\ UNCHANGED <<fixed, caches, heap, returned, emitted>>

\* the accessor of a unit variant begins
CheckUnit(c, i) ==
  /\ Visible(VisOf(gen[i]), host.module)
  /\ gen[i].template = "unit"
  /\ Check(c, i)

\* the accessor of a variant with fields, none curried, begins
CheckPlain(c, i) ==
  /\ Visible(VisOf(gen[i]), host.module)
  /\ gen[i].template = "plain"
  /\ Check(c, i)

\* self.field.replace(Some(self.link.callback(..)))
Replace(f) ==
  /\ ~panicked
  /\ f.pc = "replace"
  /\ IF CanBorrowMut(f.cache, gen[f.variant].field_name)
     THEN /\ Proceed(f, "read")
          /\ heap' = Append(heap, Closure(f.cache, f.variant, <<>>))
          /\ caches' = [caches EXCEPT ![f.cache][1].slots[gen[f.variant].field_name] =
                                        Some(Len(heap) + 1)]
          /\ UNCHANGED borrows
     ELSE /\ Panic(f)
          /\ UNCHANGED <<heap, caches>>
  /\ UNCHANGED <<fixed, returned, emitted, ncalls>>

\* self.field.borrow().clone().unwrap()
Read(f) ==
  LET slot == Slot(f.cache, f.variant)
  IN  /\ ~panicked
      /\ f.pc = "read"
      /\ IF CanBorrow(f.cache, gen[f.variant].field_name) /\ ~IsNone(slot)
         THEN /\ panicked' = panicked
              /\ frames' = frames \ {f}
              /\ borrows' = { b \in borrows : b.frame # f.id }
              /\ returned' = returned \cup {Return(f.cache, f.variant, f.key, Clone(slot)[1])}
         ELSE /\ Panic(f)
              /\ UNCHANGED returned
      /\ UNCHANGED <<fixed, caches, heap, emitted, ncalls>>

\* self.field.borrow_mut(): the accessor of a variant with curried fields begins
BorrowMut(c, i, key) ==
  LET f == Frame(c, i, key, "borrow_mut")
  IN  /\ Begin(c)
      /\ gen[i].template = "curried"
      /\ Visible(VisOf(gen[i]), host.module)
      /\ ncalls' = ncalls + 1
      /\ IF CanBorrowMut(c, gen[i].field_name)
         THEN /\ Proceed(f, "entry")
              /\ borrows' = borrows \cup {Borrow(f, "mut")}
         ELSE Panic(f)
      /\ UNCHANGED <<fixed, caches, heap, returned, emitted>>

\* .entry(key).or_insert_with_key(|key| { ..; self.link.callback(..) })
OrInsert(f) ==
  LET map   == Slot(f.cache, f.variant)
      code  == gen[f.variant]
      fresh == Len(heap) + 1
  IN  /\ ~panicked
      /\ f.pc = "entry"
      /\ IF Vacant(map, f.key) /\ \E cell \in ClosureBorrows(code) : ~CanBorrow(f.cache, cell)
         THEN /\ Panic(f)
              /\ UNCHANGED <<heap, caches>>
         ELSE /\ Proceed(f, "clone")
              /\ heap' = IF Vacant(map, f.key)
                         THEN Append(heap, Closure(f.cache, f.variant, Captured(code, f.key)))
                         ELSE heap
              /\ caches' = [caches EXCEPT ![f.cache][1].slots[code.field_name] =
                                            OrInsertWithKey(map, f.key, fresh)]
              /\ UNCHANGED borrows
      /\ UNCHANGED <<fixed, returned, emitted, ncalls>>

\* .clone(), and the RefMut is dropped as the accessor returns
CloneEntry(f) ==
  LET found == CHOOSE e \in Entry(Slot(f.cache, f.variant), f.key) : TRUE
  IN  /\ ~panicked
      /\ f.pc = "clone"
      /\ panicked' = panicked
      /\ frames' = frames \ {f}
      /\ borrows' = { b \in borrows : b.frame # f.id }
      /\ returned' = returned \cup {Return(f.cache, f.variant, f.key, Clone(found.cb))}
      /\ UNCHANGED <<fixed, caches, heap, emitted, ncalls>>

NextSteps ==
  \/ \E c \in CacheIds, link \in Scopes : New(c, link)
  \/ \E c \in CacheIds, link \in Scopes : FromScope(c, link)
  \/ \E c \in CacheIds, link \in Scopes : FromScopeRef(c, link)
  \/ \E c \in CacheIds, i \in DOMAIN gen : CheckUnit(c, i)
  \/ \E c \in CacheIds, i \in DOMAIN gen : CheckPlain(c, i)
  \/ \E f \in frames : Replace(f)
  \/ \E f \in frames : Read(f)
  \/ \E c \in CacheIds, i \in DOMAIN gen : \E key \in Keys(gen[i]) : BorrowMut(c, i, key)
  \/ \E f \in frames : OrInsert(f)
  \/ \E f \in frames : CloneEntry(f)
  \/ \E r \in returned : \E input \in Inputs(gen[r.variant]) : Invoke(r.cb, input)

\* one call at a time, as the component's view function makes them
SpecSteps == Init /\ [][NextSteps]_vars

\* two calls in progress at once
InitOverlap ==
  /\ Derived(Decls)
  /\ vis = "pub"
  /\ host = [caches |-> {1}, calls |-> 2, module |-> "own"]

SpecOverlap == InitOverlap /\ [][NextSteps]_vars

\* ------------------------------------------------------------ properties
\* The properties speak of the declaration: which fields carry `#[curry]`.
Marked(variant, p) == "curry" \in variant.fields[p].attrs

HasCurried(variant) == \E p \in DOMAIN variant.fields : Marked(variant, p)

\* the position of field p among the fields marked like it
Rank(variant, p) ==
  Cardinality({ q \in 1..p : Marked(variant, q) = Marked(variant, p) })

\* the value a message holds in the field declared at position p
FieldAt(msg, variant, p) ==
  IF variant.kind = "Named" THEN msg.fields[variant.fields[p].ident[1]]
  ELSE msg.fields[p]

Live == { c \in CacheIds : caches[c] # None }

\* the accessor calls on cache c for variant i
CallsOf(c, i) == { r \in returned : r.cache = c /\ r.variant = i }

\* the closures constructed by cache c for variant i
Constructed(c, i) ==
  { h \in DOMAIN heap : heap[h].owner = c /\ heap[h].variant = i }

\* the Single slot of variant i holds a handler, or the Keyed slot holds one
\* under a key equal to `val`
Present(c, i, val) ==
  IF HasCurried(decl[i]) THEN \E e \in Slot(c, i) : e.key.val = val
  ELSE Slot(c, i) # None

\* the accessor call this step makes, if it makes one
ThisCall == returned' \ returned

\* C1: every call of the accessor of a variant without curried fields
\* returns a handler equal to the one every earlier call returned.
C1_NoCurryIdempotent ==
  \A r1, r2 \in returned :
    (/\ r1.cache = r2.cache
     /\ r1.variant = r2.variant
     /\ ~HasCurried(decl[r1.variant]))
    => CallbackEq(r1.cb, r2.cb)

\* three calls of the same argument-less accessor, with an invocation made
C1_Witness ==
  /\ emitted # None
  /\ \E r1, r2, r3 \in returned :
       /\ r1.variant = r2.variant /\ r2.variant = r3.variant
       /\ ~HasCurried(decl[r1.variant])
       /\ decl[r1.variant].kind # "Unit"
       /\ r1.key.addr < r2.key.addr /\ r2.key.addr < r3.key.addr
       /\ CallbackEq(r1.cb, r3.cb)

\* C2: two calls of a curried accessor with keys equal by value return
\* equal handlers, whatever is called in between.
C2_EqualKeysEqualHandlers ==
  \A r1, r2 \in returned :
    (/\ r1.cache = r2.cache
     /\ r1.variant = r2.variant
     /\ HasCurried(decl[r1.variant])
     /\ r1.key.val = r2.key.val)
    => CallbackEq(r1.cb, r2.cb)

\* two key tuples of equal value, each the caller's own, with a call for
\* another key between them
C2_Witness ==
  \E r1, r2, r3 \in returned :
    /\ r1.variant = r2.variant /\ HasCurried(decl[r1.variant])
    /\ r1.key.val = r2.key.val /\ r1.key.addr # r2.key.addr
    /\ r1.key.addr < r3.key.addr /\ r3.key.addr < r2.key.addr
    /\ r3.key.val # r1.key.val
    /\ CallbackEq(r1.cb, r2.cb)

\* C3: two calls of a curried accessor with keys that differ in some
\* component return unequal handlers.
C3_DistinctKeysDistinctHandlers ==
  \A r1, r2 \in returned :
    (/\ r1.cache = r2.cache
     /\ r1.variant = r2.variant
     /\ HasCurried(decl[r1.variant])
     /\ r1.key.val # r2.key.val)
    => ~CallbackEq(r1.cb, r2.cb)

\* keys that differ in the last component only, called in both orders
C3_Witness ==
  \E r1, r2, r3 \in returned :
    /\ r1.variant = r2.variant /\ r2.variant = r3.variant
    /\ Len(r1.key.val) = 2
    /\ r1.key.val[1] = r2.key.val[1] /\ r1.key.val[2] # r2.key.val[2]
    /\ r3.key.val = r1.key.val
    /\ r1.key.addr < r2.key.addr /\ r2.key.addr < r3.key.addr
    /\ ~CallbackEq(r1.cb, r2.cb) /\ ~CallbackEq(r3.cb, r2.cb)

C4_Counts ==
  \A c \in Live : \A i \in DOMAIN decl :
    IF HasCurried(decl[i])
    THEN Cardinality(Constructed(c, i))
           = Cardinality({ r.key.val : r \in CallsOf(c, i) })
    ELSE Cardinality(Constructed(c, i)) <= 1

C4_HitConstructsNothing ==
  \A r \in ThisCall : Present(r.cache, r.variant, r.key.val) => heap' = heap

\* C4: the constructor runs once per (variant, key): as many handlers are
\* constructed for a curried variant as distinct keys were asked for, at
\* most one for a variant without curried fields, none by a hit.
C4_ConstructedOncePerKey == []C4_Counts /\ [][C4_HitConstructsNothing]_vars

\* three calls, two of them hits, one handler constructed
C4_Witness ==
  \E c \in Live : \E i \in DOMAIN decl :
    /\ HasCurried(decl[i])
    /\ Cardinality(CallsOf(c, i)) = 3
    /\ Cardinality({ r.key.val : r \in CallsOf(c, i) }) = 2
    /\ Cardinality(Constructed(c, i)) = 2

\* the accessor calls that returned the handler cb
CallsFor(cb) == { r \in returned : r.cb = cb }

\* the message holds, at every declared position, the key's component for a
\* curried field and the input's component for another
Reconstructs(msg, variant, key, input) ==
  /\ msg.variant = variant.ident
  /\ \A p \in DOMAIN variant.fields :
       FieldAt(msg, variant, p) =
         IF Marked(variant, p) THEN key[Rank(variant, p)] ELSE input[Rank(variant, p)]

\* C5: the handler returned by accessor(c1..cm), invoked with (n1..nk),
\* yields the variant with every curried field holding its ci and every
\* other field its nj, at the declared positions.
C5_Reconstruction ==
  emitted # None =>
    \A r \in CallsFor(emitted[1].cb) :
      HasCurried(decl[r.variant]) =>
        Reconstructs(emitted[1].msg, decl[r.variant], r.key.val, emitted[1].input)

\* on_key_press(0, "foo") invoked with (kb_event, input_event) has sent
\* OnKeyPress(0, kb_event, input_event, "foo")
C5_Witness ==
  /\ emitted # None
  /\ emitted[1].msg = [variant |-> "OnKeyPress", form |-> "Tuple",
                       fields |-> <<0, "kb_event", "input_event", "foo">>]
  /\ emitted[1].input = <<"kb_event", "input_event">>
  /\ \E r \in CallsFor(emitted[1].cb) : r.key.val = <<0, "foo">>

\* the curried fields of the message are the key's components
CurriedFieldsAre(msg, variant, key) ==
  \A p \in DOMAIN variant.fields :
    Marked(variant, p) => FieldAt(msg, variant, p) = key[Rank(variant, p)]

C6_EmitsOwnKey ==
  emitted # None =>
    \A r \in CallsFor(emitted[1].cb) :
      CurriedFieldsAre(emitted[1].msg, decl[r.variant], r.key.val)

C6_CapturedKept ==
  \A h \in DOMAIN heap : heap'[h].env = heap[h].env

\* C6: a handler obtained for key k sends, at its first and at every later
\* invocation, a message whose curried fields are k; no step changes what a
\* handler has captured.
C6_CurriedValuesFixed == []C6_EmitsOwnKey /\ [][C6_CapturedKept]_vars

\* a handler invoked again, after handlers for two other keys were made
C6_Witness ==
  /\ emitted # None
  /\ emitted[1].again
  /\ Len(heap) >= emitted[1].cb + 2
  /\ \E r \in CallsFor(emitted[1].cb) :
       /\ HasCurried(decl[r.variant])
       /\ \A h \in DOMAIN heap :
            h # r.cb => heap[h].variant = r.variant /\ heap[h].env # heap[r.cb].env

\* what was in the slots stays there
C7_Kept ==
  \A c \in Live : \A i \in DOMAIN decl :
    IF HasCurried(decl[i])
    THEN /\ \A e \in Slot(c, i) : \E e2 \in Slot(c, i)' :
              e2.key.val = e.key.val /\ CallbackEq(e2.cb, e.cb)
         /\ \A e1, e2 \in Slot(c, i)' :
              e1.key.val = e2.key.val => e1 = e2
         /\ Cardinality(Slot(c, i)') >= Cardinality(Slot(c, i))
    ELSE Slot(c, i) # None => Slot(c, i)' = Slot(c, i)

\* C7: once a Single slot or a key of a Keyed slot holds a handler it holds
\* that handler in every later state; a Keyed slot never loses an entry.
C7_OccupancyOneWay == [][C7_Kept]_vars

\* a Single slot and two keys of a Keyed slot occupied, by three accessor
\* calls, and a handler invoked since
C7_Witness ==
  /\ emitted # None
  /\ \E c \in Live : \E i, j \in DOMAIN decl :
       /\ ~HasCurried(decl[i]) /\ Slot(c, i) # None
       /\ HasCurried(decl[j]) /\ Cardinality(Slot(c, j)) = 2

C8_OnlyByAccess ==
  \A c \in Live : \A i \in DOMAIN decl :
    IF HasCurried(decl[i])
    THEN { e.key.val : e \in Slot(c, i) } = { r.key.val : r \in CallsOf(c, i) }
    ELSE Slot(c, i) # None <=> CallsOf(c, i) # {}

C8_FreshIsEmpty ==
  \A c \in CacheIds :
    (caches[c] = None /\ caches'[c] # None) =>
      \A i \in DOMAIN decl :
        IF HasCurried(decl[i]) THEN Slot(c, i)' = {} ELSE Slot(c, i)' = None

\* C8: a cache made by new or by a From conversion has every slot empty,
\* and in every state a Single slot is occupied iff its accessor has been
\* called and a Keyed slot's keys are the distinct keys it was called with.
C8_LazyPopulation == []C8_OnlyByAccess /\ [][C8_FreshIsEmpty]_vars

\* of the five slots, one Single slot is occupied and one is not, one
\* Keyed slot has the two keys asked for and the other is empty
C8_Witness ==
  \E c \in Live : \E i1, i2, j1, j2 \in DOMAIN decl :
    /\ ~HasCurried(decl[i1]) /\ Slot(c, i1) # None
    /\ ~HasCurried(decl[i2]) /\ Slot(c, i2) = None
    /\ HasCurried(decl[j1]) /\ Cardinality(Slot(c, j1)) = 2
    /\ HasCurried(decl[j2]) /\ Slot(c, j2) = {}

\* the slots of cache c other than the slot of variant i
OtherSlots(cache, i) ==
  [f \in DOMAIN cache.slots \ {gen[i].field_name} |-> cache.slots[f]]

C9_Frame ==
  \A r \in ThisCall :
    IF Present(r.cache, r.variant, r.key.val)
    THEN caches' = caches
    ELSE /\ \A c \in CacheIds \ {r.cache} : caches'[c] = caches[c]
         /\ Cache(r.cache)'.link = Cache(r.cache).link
         /\ OtherSlots(Cache(r.cache)', r.variant) = OtherSlots(Cache(r.cache), r.variant)
         /\ IF HasCurried(decl[r.variant])
            THEN Slot(r.cache, r.variant)'
                   = Slot(r.cache, r.variant) \cup {[key |-> r.key, cb |-> r.cb]}
            ELSE Slot(r.cache, r.variant)' = Some(r.cb)

\* C9: an accessor call that hits leaves the cache unchanged; one that
\* misses adds one entry under its key to its variant's slot and leaves the
\* other slots and the other entries of that slot as they were.
C9_MissOnlyMutation == [][C9_Frame]_vars

\* in a cache of several slots: a miss, a miss into the same Keyed slot
\* under another key, and a hit
C9_Witness ==
  \E c \in Live : \E i \in DOMAIN decl :
    /\ Len(decl) > 1
    /\ HasCurried(decl[i]) /\ Cardinality(Slot(c, i)) = 2
    /\ \E r1, r2, r3 \in CallsOf(c, i) :
         /\ r1.key.addr < r2.key.addr /\ r2.key.addr < r3.key.addr
         /\ r1.key.val # r2.key.val /\ r3.key.val = r1.key.val

\* C10: handlers returned by the accessors of two different variants of one
\* cache are never equal.
C10_VariantsNeverShare ==
  \A r1, r2 \in returned :
    (r1.cache = r2.cache /\ r1.variant # r2.variant) => ~CallbackEq(r1.cb, r2.cb)

\* on_key_press and on_stuff, of the same input type, called with equal keys
C10_Witness ==
  \E r1, r2 \in returned :
    /\ r1.variant # r2.variant
    /\ gen[r1.variant].callbacks = gen[r2.variant].callbacks
    /\ r1.key.val = r2.key.val /\ r1.key.val = <<0, "foo">>
    /\ ~CallbackEq(r1.cb, r2.cb)

\* ---------------------------------------------------------------- C11
\* the next statement of a call in progress runs without a panic
NextStatementRuns(f) ==
  CASE f.pc = "replace" -> CanBorrowMut(f.cache, gen[f.variant].field_name)
    [] f.pc = "read"    -> /\ CanBorrow(f.cache, gen[f.variant].field_name)
                           /\ ~IsNone(Slot(f.cache, f.variant))
    [] f.pc = "entry"   -> /\ Held(f.cache, gen[f.variant].field_name) = {Borrow(f, "mut")}
                           /\ \A cell \in ClosureBorrows(gen[f.variant]) :
                                CanBorrow(f.cache, cell)
    [] f.pc = "clone"   -> Entry(Slot(f.cache, f.variant), f.key) # {}

\* C11: every accessor call is total. Run statement by statement, no call
\* panics: the final read of a Single slot never finds it empty, and no
\* statement asks for a borrow of the slot's cell that conflicts with one
\* still held, the closure that constructs the handler inside
\* or_insert_with_key included; every call in progress can take its next
\* statement.
C11_AccessorsTotal ==
  /\ ~panicked
  /\ \A f \in frames : NextStatementRuns(f)
  /\ frames = {} => borrows = {}

\* a miss and a hit on a Single slot and a miss on a Keyed slot have returned
C11_Witness ==
  /\ ~panicked
  /\ frames = {}
  /\ \E r, s, t \in returned :
       /\ gen[r.variant].template # "curried"
       /\ s.variant = r.variant /\ s.cb = r.cb /\ s.key.addr > r.key.addr
       /\ gen[t.variant].template = "curried"

\* ---------------------------------------------------------------- C12
\* the handlers constructed for variant i of cache c with the curried values val
HandlersOf(c, i, val) ==
  { h \in DOMAIN heap :
      /\ heap[h].owner = c
      /\ heap[h].variant = i
      /\ \A a \in DOMAIN gen[i].args : heap[h].env[gen[i].args[a]] = val[a] }

\* the same, within Keyed slots only
KeyedOverlapCollapses ==
  \A r, s \in returned :
    /\ gen[r.variant].template = "curried"
    /\ r.cache = s.cache /\ r.variant = s.variant /\ KeyEq(r.key, s.key)
    => /\ CallbackEq(r.cb, s.cb)
       /\ Cardinality(HandlersOf(r.cache, r.variant, r.key.val)) = 1

C13_OnlyEnums ==
  /\ data # "Enum" => error # None /\ gen = <<>> /\ Live = {}
  /\ data = "Enum" => error = None /\ DOMAIN gen = DOMAIN decl

\* the derive was applied to a struct
C13_Witness ==
  /\ data = "Struct"
  /\ error = Some("#[derive(Callbacks)] only supports enums")

\* ---------------------------------------------------------------- C14
\* the declaration has a curried field of a type that is not Eq + Hash + Clone
UnhashableCurryKey ==
  \E i \in DOMAIN decl : \E p \in DOMAIN decl[i].fields :
    Marked(decl[i], p) /\ ~Hashable(decl[i].fields[p].ty)

\* C14 as claimed: with a curried field whose type lacks equality, hashing
\* or cheap duplication, generation aborts with SchemaError::UnhashableCurryKey
\* and generates no cache code.
C14_GenerationAborts ==
  UnhashableCurryKey =>
    error = Some("SchemaError::UnhashableCurryKey") /\ gen = <<>>

\* C14 amended: the macro does not look at the types of curried fields: it
\* does not abort and generates the cache code with the type as the key of
\* the HashMap; the generated code does not build, so no cache is ever made.
C14_RejectedByBuild ==
  UnhashableCurryKey =>
    /\ error = None
    /\ \E i \in DOMAIN gen :
         /\ gen[i].callbacks.cell = "HashMap"
         /\ \E k \in DOMAIN gen[i].callbacks.key : ~Hashable(gen[i].callbacks.key[k])
    /\ ~Builds(decl, gen)
    /\ Live = {}

\* the derive has run on an enum with a curried f64 field
C14_Witness ==
  /\ UnhashableCurryKey
  /\ gen # <<>>
  /\ gen[1].callbacks.key = <<"f64">>

\* ---------------------------------------------------------------- C15
\* the handlers stored in the slots of cache c
StoredIn(c) ==
  UNION { IF gen[i].callbacks.cell = "HashMap"
          THEN { e.cb : e \in Slot(c, i) }
          ELSE Range(Slot(c, i)) : i \in DOMAIN gen }

\* every cache stores handlers it has constructed itself and no two caches
\* store or return equal handlers, not for the same variant and equal keys
C15_Disjoint ==
  /\ \A c \in Live : \A h \in StoredIn(c) : heap[h].owner = c
  /\ \A c, d \in Live : c # d => StoredIn(c) \cap StoredIn(d) = {}
  /\ \A r, s \in returned : r.cache # s.cache => ~CallbackEq(r.cb, s.cb)

\* an accessor call on one cache leaves every other cache as it was
C15_OthersUnchanged ==
  \A r \in ThisCall : \A c \in CacheIds \ {r.cache} : caches'[c] = caches[c]

\* C15: every cache owns its slots alone: an accessor call on one cache
\* never changes another cache, also one made from the same scope, and the
\* handlers two caches return, also for the same variant and equal keys, are
\* unequal.
C15_CachesIndependent == []C15_Disjoint /\ [][C15_OthersUnchanged]_vars

\* two caches made from one scope have each returned a handler for the same
\* variant with curried fields and equal keys, the second cache twice
C15_Witness ==
  /\ Live = {1, 2}
  /\ Cache(1).link = Cache(2).link
  /\ \E r, s, t \in returned :
       /\ r.cache = 1 /\ s.cache = 2 /\ t.cache = 2 /\ s # t
       /\ r.variant = s.variant /\ s.variant = t.variant
       /\ HasCurried(decl[r.variant])
       /\ KeyEq(r.key, s.key) /\ KeyEq(s.key, t.key)

\* ---------------------------------------------------------------- C16
\* the positions of the fields of the variant that carry `#[curry]`
MarkedIn(variant) == { p \in DOMAIN variant.fields : Marked(variant, p) }

\* C16: the shape of a variant's slot follows its curried markers alone: a
\* Single slot (Option) exactly when no field is curried, a unit variant and
\* an empty field list included; a Keyed slot (HashMap) exactly when some
\* field is curried, its key the curried field types in declaration order.
\* The slots of every cache are of that shape.
C16_SlotShape ==
  \A i \in DOMAIN gen :
    LET cb == gen[i].callbacks
    IN  /\ cb.cell = "Option"  <=> MarkedIn(decl[i]) = {}
        /\ cb.cell = "HashMap" <=> MarkedIn(decl[i]) # {}
        /\ Len(cb.key) = Cardinality(MarkedIn(decl[i]))
        /\ \A p \in MarkedIn(decl[i]) : cb.key[Rank(decl[i], p)] = decl[i].fields[p].ty
        /\ \A c \in Live :
             IF MarkedIn(decl[i]) = {}
             THEN Slot(c, i) = None \/ Len(Slot(c, i)) = 1
             ELSE \A e \in Slot(c, i) : e.key.val \in Tuples(cb.key)

\* the cache of the tests' enum holds a handler in the Single slot of OnClick
\* and one in the Keyed slot of OnKeyPress, under a (usize, String) key
C16_Witness ==
  /\ decl = Msg
  /\ gen[3].callbacks.key = <<"usize", "String">>
  /\ 1 \in Live
  /\ Slot(1, 1) # None
  /\ \E e \in Slot(1, 3) : e.key.val = <<0, "foo">>

\* ---------------------------------------------------------------- C17
\* the positions of the fields of the variant that do not carry `#[curry]`
UnmarkedIn(variant) == DOMAIN variant.fields \ MarkedIn(variant)

\* C17: the accessor's parameters and the handler's input partition the
\* variant's fields: the parameters are the curried fields in declaration
\* order, the input is the other fields in their declared order, empty for
\* a unit variant and when every field is curried. The keys the accessors
\* were called with and the inputs the handlers were invoked with are of
\* these types.
C17_Partition ==
  \A i \in DOMAIN gen :
    LET v     == decl[i]
        sig   == gen[i].args_sig
        input == gen[i].callbacks.input
    IN  /\ Len(sig) = Cardinality(MarkedIn(v))
        /\ Len(input) = Cardinality(UnmarkedIn(v))
        /\ Len(sig) + Len(input) = Len(v.fields)
        /\ \A p \in MarkedIn(v) :
             /\ sig[Rank(v, p)].ty = v.fields[p].ty
             /\ v.kind = "Named" => Some(sig[Rank(v, p)].ident) = v.fields[p].ident
        /\ \A p \in UnmarkedIn(v) : input[Rank(v, p)] = v.fields[p].ty
        /\ \A r \in returned :
             r.variant = i =>
               /\ Len(r.key.val) = Len(sig)
               /\ \A k \in DOMAIN sig : r.key.val[k] \in ValuesOf(sig[k].ty)
        /\ emitted # None /\ heap[emitted[1].cb].variant = i =>
             /\ Len(emitted[1].input) = Len(input)
             /\ \A k \in DOMAIN input : emitted[1].input[k] \in ValuesOf(input[k])

\* on_key_press(0, "foo") of the tests' enum has returned a handler, which
\* was invoked with (kb_event, input_event)
C17_Witness ==
  /\ decl = Msg
  /\ emitted # None
  /\ emitted[1].input = <<"kb_event", "input_event">>
  /\ \E r \in returned :
       /\ r.variant = 3
       /\ r.key.val = <<0, "foo">>
       /\ r.cb = emitted[1].cb

\* ---------------------------------------------------------------- C18
\* C18: the constructor the handler evaluates keeps the declared shape of
\* every variant with a field list, curried fields or not, an empty field
\* list included: the named form exactly for a variant declared with named
\* fields, the positional form exactly for one declared with positional
\* fields; so does every message emitted.
C18_ShapePreserved ==
  /\ \A i \in DOMAIN gen :
       /\ decl[i].kind = "Named"   <=> gen[i].constructor.form = "Struct"
       /\ decl[i].kind = "Unnamed" <=> gen[i].constructor.form = "Tuple"
  /\ emitted # None =>
       LET i == heap[emitted[1].cb].variant
       IN  /\ decl[i].kind = "Named"   <=> emitted[1].msg.form = "Struct"
           /\ decl[i].kind = "Unnamed" <=> emitted[1].msg.form = "Tuple"

\* ---------------------------------------------------------------- C19
\* C19: the handler of a variant without curried fields, invoked with the
\* tuple of all the field values, emits the variant whose field at every
\* declared position holds the element of the tuple at that position; for a
\* variant with no field the input is empty and the message is the variant
\* itself, without a field.
C19_AllFieldsFromInput ==
  emitted # None =>
    LET i == heap[emitted[1].cb].variant
        v == decl[i]
    IN  ~HasCurried(v) =>
          /\ emitted[1].msg.variant = v.ident
          /\ Len(emitted[1].input) = Len(v.fields)
          /\ DOMAIN emitted[1].msg.fields =
               IF v.kind = "Named" THEN { v.fields[p].ident[1] : p \in DOMAIN v.fields }
               ELSE DOMAIN v.fields
          /\ \A p \in DOMAIN v.fields :
               FieldAt(emitted[1].msg, v, p) = emitted[1].input[p]
          /\ v.kind = "Unit" => emitted[1].msg.form = "Path"

\* the handler of OnInput of the tests' enum was invoked with
\* (input_event, kb_event) after the handler of the unit variant OnClick had
\* been returned
C19_Witness ==
  /\ decl = Msg
  /\ \E r \in returned : r.variant = 1
  /\ emitted # None
  /\ heap[emitted[1].cb].variant = 2
  /\ emitted[1].input = <<"input_event", "kb_event">>
  /\ emitted[1].msg = [variant |-> "OnInput", form |-> "Tuple",
                       fields |-> <<"input_event", "kb_event">>]

\* ---------------------------------------------------------------- C20
\* the handler the slot of variant i of cache c stores, under a key equal to
\* `key` when the slot is Keyed
StoredFor(c, i, key) ==
  IF HasCurried(decl[i]) THEN { e.cb : e \in Entry(Slot(c, i), key) }
  ELSE Range(Slot(c, i))

\* the step that returns from an accessor call leaves the slot Present for
\* the call's key, storing the handler returned, with nothing of the call
\* left to do
C20_AtReturn ==
  \A r \in ThisCall :
    /\ Present(r.cache, r.variant, r.key.val)'
    /\ StoredFor(r.cache, r.variant, r.key)' = {r.cb}
    /\ \A f \in frames' : f.id # r.key.addr
    /\ \A b \in borrows' : b.frame # r.key.addr

\* C20: at the return of every accessor call, a hit or a miss, the slot (and
\* the key, for a Keyed slot) is Present and the handler returned equals the
\* one stored.
C20_ReturnsStored == [][C20_AtReturn]_vars

\* a miss and then a hit on a Keyed slot have returned, and a miss on a
\* Single slot
C20_Witness ==
  /\ frames = {}
  /\ \E r, s, t \in returned :
       /\ HasCurried(decl[r.variant])
       /\ s.variant = r.variant /\ s.cache = r.cache
       /\ KeyEq(r.key, s.key) /\ r.key.addr < s.key.addr
       /\ StoredFor(s.cache, s.variant, s.key) = {s.cb}
       /\ ~HasCurried(decl[t.variant])
       /\ StoredFor(t.cache, t.variant, t.key) = {t.cb}

\* ---------------------------------------------------------------- C21
\* the handler the accessor of variant i of cache c returns when called now
\* with the key value val: the stored one, or the next one to be allocated
WouldReturn(c, i, val) ==
  IF Present(c, i, val)
  THEN CHOOSE h \in StoredFor(c, i, [addr |-> 0, val |-> val]) : TRUE
  ELSE Len(heap) + 1

\* a step that invokes a handler changes no cache, and every accessor call
\* returns after it what it would have returned before it
C21_InvocationFrame ==
  emitted' # emitted =>
    /\ caches' = caches
    /\ returned' = returned
    /\ \A c \in Live : \A i \in DOMAIN gen : \A val \in Tuples(gen[i].callbacks.key) :
         WouldReturn(c, i, val)' = WouldReturn(c, i, val)

\* C21: invoking a handler, any number of times and with any input, leaves
\* the cache unchanged: no slot is populated, emptied or replaced, and the
\* handler any accessor returns afterwards for any variant and key is the
\* one it would have returned without the invocation.
C21_InvocationLeavesCache == [][C21_InvocationFrame]_vars

\* a handler with curried fields was invoked twice and its accessor has
\* returned it for two calls with equal keys
C21_Witness ==
  /\ emitted # None
  /\ emitted[1].again
  /\ \E r, s \in returned :
       /\ r # s
       /\ HasCurried(decl[r.variant])
       /\ r.cb = emitted[1].cb /\ s.cb = emitted[1].cb
       /\ StoredFor(r.cache, r.variant, r.key) = {emitted[1].cb}

\* ---------------------------------------------------------------- C22
\* C22: every variant's accessor has the visibility of the enum and of the
\* cache type, whatever the variant's shape: unit, with fields none of them
\* curried, with curried fields; so wherever the cache type can be named,
\* every accessor can be called.
C22_SameVisibility ==
  \A i \in DOMAIN gen :
    /\ VisOf(gen[i]) = vis
    /\ \A m \in Modules : Visible(vis, m) => Visible(VisOf(gen[i]), m)

====
